---- MODULE Spec2Model ----
(***************************************************************************)
(* BoltChat (boltchat.py): users, HTTP sessions, Socket.IO connections,    *)
(* rooms and messages.                                                     *)
(*                                                                         *)
(* HTTP routes (register, login, logout) are one action each.  The         *)
(* send_message handler runs in its own thread per event, so it is two     *)
(* steps: up to and including db.commit(), and from the payload to the     *)
(* final emit; handlers of different events interleave between them.       *)
(***************************************************************************)
EXTENDS Integers, Sequences, FiniteSets, TLC

\* ------------------------------------------------------------ bounds ----
MaxMsgs == 2            \* messages persisted in one behaviour of SpecChat
MaxHistMsgs == 101      \* messages persisted in one behaviour of SpecHistory
MaxUserId == 12         \* registered users in SpecRoom
MaxPresenceMsgs == 1    \* messages persisted in one behaviour of SpecPresence
MaxEmitted == 3         \* events of one page that the server has not handled yet
MaxSendMsgs == 2        \* messages persisted in one behaviour of SpecSend
MaxAllMsgs == 2         \* messages persisted in one behaviour of SpecAll
MaxRegistering == 2     \* register requests between their check and their commit

\* .limit(100) of api_room_history
HistoryLimit == 100

\* Python None for a string-valued place (a null column, no response)
None == "None"
\* no "user_id" key in a session; no row found (ids start at 1)
NoUser == 0
\* the id 'global' of the Global Chat row, where the other rows have a user id
GlobalId == 0

Sessions == {"s1", "s2"}              \* browser (cookie) sessions
Conns == {"c1", "c2"}                 \* Socket.IO connections (sids)
Rooms == {"global", "private_1_2"}    \* data["room"] of the events
Contents == {"hi"}                    \* data["content"] of send_message

\* Form inputs, as sequences of characters.
RawEmails == { <<"a">>, <<"A", " ">>, <<"b">>, <<" ">> }
RawNames == { <<" ", "n">> }
Passwords == { <<"p">>, <<"q">> }
RegPasswords == { <<"p">> }
\* the form of POST /profile: the name field, the name of the uploaded file
\* (<<>> when no file is chosen), and what secrets.token_hex(8) returns
ProfileNames == { <<" ", "m">>, <<" ">> }
FileNames == { <<>>, <<"a", ".", "p", "N", "g">>, <<"a", ".", "b">>, <<"p", "n", "g">> }
Tokens == { "0a", "0b" }

\* data["content"] of send_message in SpecSend, as sequences of characters
SentContents == { <<"h", "i">>, <<" ">>, <<>> }

\* ------------------------------------------------- string functions ----
\* str.lower() on one character of the alphabet used here
lower_char(ch) ==
    IF ch = "A" THEN "a" ELSE IF ch = "B" THEN "b" ELSE IF ch = "N" THEN "n" ELSE ch

lower(s) == [i \in 1..Len(s) |-> lower_char(s[i])]

RECURSIVE lstrip(_)
lstrip(s) == IF s # <<>> /\ Head(s) = " " THEN lstrip(Tail(s)) ELSE s

RECURSIVE rstrip(_)
rstrip(s) ==
    IF s # <<>> /\ s[Len(s)] = " " THEN rstrip(SubSeq(s, 1, Len(s) - 1)) ELSE s

strip(s) == rstrip(lstrip(s))

\* mutant: the key keeps its case
normalize_email_cased(raw) == strip(raw)

\* the e-mail key of register and login: .strip().lower()
normalize_email(raw) == lower(strip(raw))

\* all([name, email, pwd]): every field is a non-empty string
all_fields(name, email, pwd) == name # <<>> /\ email # <<>> /\ pwd # <<>>

\* werkzeug's hash is not the password; check recomputes and compares
generate_password_hash(pwd) == <<"pbkdf2">> \o pwd

\* mutant: every password passes
check_password_hash_any(hash, pwd) == TRUE

check_password_hash(hash, pwd) == hash = generate_password_hash(pwd)

ALLOWED_EXT ==
    { <<"p", "n", "g">>, <<"j", "p", "g">>, <<"j", "p", "e", "g">>,
      <<"g", "i", "f">>, <<"w", "e", "b", "p">> }

\* filename.rsplit(".", 1)[1]: what follows the last dot of a name that has one
extension(filename) ==
    LET dots == {i \in 1..Len(filename) : filename[i] = "."}
        lastDot == CHOOSE i \in dots : \A j \in dots : j <= i
    IN  SubSeq(filename, lastDot + 1, Len(filename))

\* allowed_file
allowed_file(filename) ==
    /\ \E i \in 1..Len(filename) : filename[i] = "."
    /\ lower(extension(filename)) \in ALLOWED_EXT

\* a sequence of characters as the string it spells
RECURSIVE str(_)
str(s) == IF s = <<>> THEN "" ELSE Head(s) \o str(Tail(s))

\* ------------------------------------------------------------- state ----
VARIABLES
    users,      \* table users, in id order: users[i].id = i
    messages,   \* table messages, in id (commit) order
    session,    \* session[s]: "user_id" of browser session s, or NoUser
    conn,       \* conn[c]: [state, user_id, session]: the connection, its copy of
                \* "user_id" and the browser session it was opened from
    rooms,      \* rooms[r]: the connections subscribed to room r
    received,   \* received[c]: new_message payloads delivered to c, in order
    usersList,  \* usersList[c]: the last online_users snapshot delivered to c
    pending,    \* send_message handlers between db.commit() and emit
    now,        \* the last reading of datetime.utcnow
    page,       \* page[c]: the dashboard script of connection c: myId, currentRoom,
                \* the id openRoom was last called with, the events emitted
    registering, \* the register requests that have passed the checks of lines
                \* 629-632 and have not reached db.commit() yet
    last        \* the last operation and its response (history variable)

vars == <<users, messages, session, conn, rooms, received, usersList, pending, now,
         page, registering, last>>

NoOp == [op |-> "init", by |-> None, email |-> <<>>, mid |-> 0, resp |-> None]

\* no dashboard behind a connection: a client that emits events of its own
NoPage == [myId |-> NoUser, currentRoom |-> "global", peer |-> GlobalId, emitted |-> <<>>]

Did(op, by, resp) == [NoOp EXCEPT !.op = op, !.by = by, !.resp = resp]

Init ==
    /\ users = <<>>
    /\ messages = <<>>
    /\ session = [s \in Sessions |-> NoUser]
    /\ conn = [c \in Conns |-> [state |-> "new", user_id |-> NoUser, session |-> None]]
    /\ rooms = [r \in Rooms |-> {}]
    /\ received = [c \in Conns |-> <<>>]
    /\ usersList = [c \in Conns |-> <<>>]
    /\ pending = {}
    /\ now = 0
    /\ page = [c \in Conns |-> NoPage]
    /\ registering = {}
    /\ last = NoOp

\* ----------------------------------------------------------- helpers ----
\* db.query(User).filter_by(email=email).first(): the id of the row, or NoUser
find_user_by_email(email) ==
    IF \E i \in 1..Len(users) : users[i].email = email
    THEN CHOOSE i \in 1..Len(users) : users[i].email = email
    ELSE NoUser

\* mutant: the decorator lets every request through
login_not_required(user_id) == TRUE

\* login_required: "user_id" in session
login_required(user_id) == user_id # NoUser

\* mutant: a session without "user_id" is taken for the first user
current_user_or_first(user_id) ==
    IF user_id \in 1..Len(users) THEN user_id ELSE IF users # <<>> THEN 1 ELSE NoUser

\* mutant: whoever asks, the first row of the users is returned
current_user_first_row(user_id) == IF users # <<>> THEN 1 ELSE NoUser

\* current_user(): db.query(User).get(session["user_id"]), as the id of the row
current_user(user_id) ==
    IF user_id = NoUser THEN NoUser
    ELSE IF user_id \in 1..Len(users) THEN user_id ELSE NoUser

avatar_url(u) ==
    IF u.avatar # None THEN "/uploads/" \o u.avatar ELSE "/static/default-avatar.png"

\* the roster built by api_users and by handle_message
snapshot(us) ==
    [i \in 1..Len(us) |->
        [id |-> us[i].id, name |-> us[i].name,
         avatar |-> avatar_url(us[i]), online |-> us[i].online]]

\* mutant: the flag is written to a new row for the user
set_online_new_row(us, id, flag) == Append(us, [us[id] EXCEPT !.online = flag])

\* user.online = flag; db.commit()
set_online(us, id, flag) == [us EXCEPT ![id].online = flag]

OpenConns == {c \in Conns : conn[c].state = "open"}

\* mutant: a join enters the connection into every room
join_room_all(rs, c, room) == [r \in DOMAIN rs |-> rs[r] \cup {c}]

\* mutant: a join takes the connection out of the rooms it was in
join_room_exclusive(rs, c, room) ==
    [r \in DOMAIN rs |-> IF r = room THEN rs[r] \cup {c} ELSE rs[r] \ {c}]

\* flask_socketio.join_room / leave_room for the connection of the event
join_room(rs, c, room) == [rs EXCEPT ![room] = @ \cup {c}]

\* mutant: a leave is ignored
leave_room_ignored(rs, c, room) == rs

\* mutant: leaving one room leaves them all
leave_room_all(rs, c, room) == [r \in DOMAIN rs |-> rs[r] \ {c}]

leave_room(rs, c, room) == [rs EXCEPT ![room] = @ \ {c}]

\* mutant: a closed connection stays subscribed
close_rooms_kept(rs, c) == rs

\* the Socket.IO server drops a closed connection from every room
close_rooms(rs, c) == [r \in Rooms |-> rs[r] \ {c}]

\* mutant: new_message goes out with broadcast=True
emit_to_everyone(rs, room) == OpenConns

\* emit(event, payload, to=room): the connections it is delivered to
emit_to(rs, room) == rs[room]

\* mutant: online_users goes to the connections that are in some room
emit_broadcast_subscribed == UNION {rooms[r] : r \in Rooms}

\* emit(event, payload, broadcast=True): every connected client
emit_broadcast == OpenConns

deliver(rcv, recipients, payload) ==
    [c \in Conns |-> IF c \in recipients THEN Append(rcv[c], payload) ELSE rcv[c]]

\* ------------------------------------------------------- HTTP routes ----
\* POST /register
register(s, rawName, rawEmail, pwd) ==
    /\ LET name == strip(rawName)
           email == normalize_email(rawEmail)
           id == Len(users) + 1
           user == [id |-> id, email |-> email, name |-> name,
                    password_hash |-> generate_password_hash(pwd),
                    avatar |-> None, online |-> FALSE]
       IN  IF ~all_fields(name, email, pwd)
           THEN /\ last' = [Did("register", s, "All fields are required.") EXCEPT !.email = rawEmail]
                /\ UNCHANGED <<users, session>>
           ELSE IF find_user_by_email(email) # NoUser
           THEN /\ last' = [Did("register", s, "Email already registered.") EXCEPT !.email = rawEmail]
                /\ UNCHANGED <<users, session>>
           ELSE /\ users' = set_online(Append(users, user), id, TRUE)
                /\ session' = [session EXCEPT ![s] = id]
                /\ last' = [Did("register", s, "/dashboard") EXCEPT !.email = rawEmail]
    /\ UNCHANGED <<messages, conn, rooms, received, usersList, pending, now, page, registering>>

\* POST /register as the steps of a request thread: first the checks of
\* lines 626-632.  Requests of other threads may run before its db.commit().
register_check(s, rawName, rawEmail, pwd) ==
    /\ LET name == strip(rawName)
           email == normalize_email(rawEmail)
       IN  IF ~all_fields(name, email, pwd)
           THEN /\ last' = [Did("register", s, "All fields are required.") EXCEPT !.email = rawEmail]
                /\ UNCHANGED registering
           ELSE IF find_user_by_email(email) # NoUser
           THEN /\ last' = [Did("register", s, "Email already registered.") EXCEPT !.email = rawEmail]
                /\ UNCHANGED registering
           ELSE /\ registering' = registering \cup
                      {[session |-> s, name |-> name, email |-> email,
                        password_hash |-> generate_password_hash(pwd)]}
                /\ last' = [Did("register", s, "checked") EXCEPT !.email = rawEmail]
    /\ UNCHANGED <<users, messages, session, conn, rooms, received, usersList, pending, now, page>>

\* mutant: the column has no unique index
unique_email_off(us, email) == TRUE

\* email = Column(String, unique=True): whether the INSERT of a row with
\* this email passes the unique index
unique_email(us, email) == \A i \in 1..Len(us) : us[i].email # email

\* ... then lines 633-636 of the request r: db.add(user); db.commit(), which
\* raises IntegrityError on the unique index and ends the request, and the
\* login of the new user otherwise.  The threads share one database session:
\* a commit may also raise (ok = FALSE) on the row that another thread added.
register_insert(r, ok) ==
    /\ r \in registering
    /\ registering' = registering \ {r}
    /\ LET id == Len(users) + 1
           user == [id |-> id, email |-> r.email, name |-> r.name,
                    password_hash |-> r.password_hash,
                    avatar |-> None, online |-> FALSE]
       IN  IF ~ok \/ ~unique_email(users, r.email)
           THEN /\ last' = [Did("register", r.session, "500") EXCEPT !.email = r.email]
                /\ UNCHANGED <<users, session>>
           ELSE /\ users' = set_online(Append(users, user), id, TRUE)
                /\ session' = [session EXCEPT ![r.session] = id]
                /\ last' = [Did("register", r.session, "/dashboard") EXCEPT !.email = r.email]
    /\ UNCHANGED <<messages, conn, rooms, received, usersList, pending, now, page>>

\* POST /login
login(s, rawEmail, pwd) ==
    /\ LET email == normalize_email(rawEmail)
           user == find_user_by_email(email)
       IN  IF user # NoUser /\ check_password_hash(users[user].password_hash, pwd)
           THEN /\ session' = [session EXCEPT ![s] = user]
                /\ users' = set_online(users, user, TRUE)
                /\ last' = [Did("login", s, "/dashboard") EXCEPT !.email = rawEmail]
           ELSE /\ last' = [Did("login", s, "Invalid email or password.") EXCEPT !.email = rawEmail]
                /\ UNCHANGED <<users, session>>
    /\ UNCHANGED <<messages, conn, rooms, received, usersList, pending, now, page, registering>>

\* GET /logout
logout(s) ==
    /\ IF ~login_required(session[s])
       THEN /\ last' = Did("logout", s, "/home")
            /\ UNCHANGED <<users, session>>
       ELSE LET user == current_user(session[s])
            IN  /\ users' = IF user # NoUser THEN set_online(users, user, FALSE) ELSE users
                /\ session' = [session EXCEPT ![s] = NoUser]
                /\ last' = Did("logout", s, "/")
    /\ UNCHANGED <<messages, conn, rooms, received, usersList, pending, now, page, registering>>

\* mutant: the form is saved to the first user
profile_target_first(user_id) == IF users # <<>> THEN 1 ELSE NoUser

\* the row that POST /profile writes: current_user()
profile_target(user_id) == current_user(user_id)

\* POST /profile on session s.  The file written to the upload folder is not
\* part of the state.
profile(s, rawName, filename, token) ==
    /\ IF ~login_required(session[s])
       THEN /\ last' = Did("profile", s, "/home")
            /\ UNCHANGED users
       ELSE LET user == profile_target(session[s])
            IN  IF user = NoUser
                THEN /\ last' = Did("profile", s, "500")
                     /\ UNCHANGED users
                ELSE /\ users' =
                          [users EXCEPT
                             ![user].name = strip(rawName),
                             ![user].avatar =
                                IF filename # <<>> /\ allowed_file(filename)
                                THEN ToString(users[user].id) \o "_" \o token \o "."
                                        \o str(lower(extension(filename)))
                                ELSE @]
                     /\ last' = Did("profile", s, "200")
    /\ UNCHANGED <<messages, session, conn, rooms, received, usersList, pending, now, page, registering>>

\* -------------------------------------------------- Socket.IO events ----
\* io(): a browser with session s opens connection c; Flask-SocketIO hands
\* the handlers of c a copy of the session taken at connect time
connect(c, s) ==
    /\ conn[c].state = "new"
    /\ conn' = [conn EXCEPT ![c] = [state |-> "open", user_id |-> session[s], session |-> s]]
    /\ last' = Did("connect", c, s)
    /\ UNCHANGED <<users, messages, session, rooms, received, usersList, pending, now, page, registering>>

\* the transport closes c; the file registers no handler for it
disconnect(c) ==
    /\ conn[c].state = "open"
    /\ conn' = [conn EXCEPT ![c].state = "closed"]
    /\ rooms' = close_rooms(rooms, c)
    /\ last' = Did("disconnect", c, None)
    /\ UNCHANGED <<users, messages, session, received, usersList, pending, now, page, registering>>

\* @socketio.on("join_room")
handle_join(c, room) ==
    /\ conn[c].state = "open"
    /\ rooms' = join_room(rooms, c, room)
    /\ last' = Did("join_room", c, room)
    /\ UNCHANGED <<users, messages, session, conn, received, usersList, pending, now, page, registering>>

\* @socketio.on("leave_room")
handle_leave(c, room) ==
    /\ conn[c].state = "open"
    /\ rooms' = leave_room(rooms, c, room)
    /\ last' = Did("leave_room", c, room)
    /\ UNCHANGED <<users, messages, session, conn, received, usersList, pending, now, page, registering>>

\* mutant: the new row takes the place of the newest one
db_commit_over(ms, msg, ok) ==
    IF ~ok THEN ms
    ELSE IF ms = <<>> THEN <<msg>> ELSE [ms EXCEPT ![Len(ms)] = msg]

\* db.add(msg); db.commit(): the table after it; a commit that raises adds nothing
db_commit(ms, msg, ok) == IF ok THEN Append(ms, msg) ELSE ms

\* mutant: the exception of db.commit() is swallowed and the handler goes on
reaches_emit_always(pd, c, msg, ok) == pd \cup {[conn |-> c, msg |-> msg]}

\* lines 743-745: the handlers past db.commit(); an exception ends the handler
reaches_emit(pd, c, msg, ok) == IF ok THEN pd \cup {[conn |-> c, msg |-> msg]} ELSE pd

\* @socketio.on("send_message"), lines 738-743: the session check, db.add and
\* db.commit().  t is the clock reading for the timestamp column; ok is
\* whether the commit succeeds (it raises otherwise and the handler ends).
\* A handler that committed holds msg until it emits.
handle_message_commit(c, room, content, t, ok) ==
    /\ conn[c].state = "open"
    /\ t >= now
    /\ LET sender == current_user(conn[c].user_id)
           id == Len(messages) + 1
           msg == [id |-> id, sender_id |-> sender, room |-> room,
                   content |-> content, timestamp |-> t]
       IN  IF sender = NoUser
           THEN /\ last' = Did("send_message", c, "dropped")
                /\ UNCHANGED <<messages, pending, now>>
           ELSE /\ messages' = db_commit(messages, msg, ok)
                /\ pending' = reaches_emit(pending, c, msg, ok)
                /\ now' = IF ok THEN t ELSE now
                /\ last' = IF ok THEN [Did("send_message", c, "committed") EXCEPT !.mid = id]
                                 ELSE Did("send_message", c, "commit failed")
    /\ UNCHANGED <<users, session, conn, rooms, received, usersList, page, registering>>

\* the payload of new_message for the handler's msg (lines 745-752); id is
\* not in the payload: it names the message the payload was built from
new_message(m) ==
    [id |-> m.id, sender_id |-> users[m.sender_id].id,
     sender_name |-> users[m.sender_id].name,
     sender_avatar |-> avatar_url(users[m.sender_id]),
     room |-> m.room, content |-> m.content, timestamp |-> m.timestamp]

\* handle_message, lines 745-760: emit new_message to the room, then
\* online_users to everyone
handle_message_emit(p) ==
    /\ p \in pending
    /\ received' = deliver(received, emit_to(rooms, p.msg.room), new_message(p.msg))
    /\ usersList' = [c \in Conns |->
                       IF c \in emit_broadcast THEN snapshot(users) ELSE usersList[c]]
    /\ last' = [Did("emit", p.conn, "sent") EXCEPT !.mid = p.msg.id]
    /\ pending' = pending \ {p}
    /\ UNCHANGED <<users, messages, session, conn, rooms, now, page, registering>>

\* ------------------------------------------------- dashboard script ----
Max(a, b) == IF a >= b THEN a ELSE b

\* mutant: the room is named by the caller's peer first, then the caller
privateRoom_unordered(id, myId) ==
    "private_" \o ToString(id) \o "_" \o ToString(myId)

\* openRoom, line 553: the room of the page of user myId for the row of user id
privateRoom(id, myId) ==
    "private_" \o ToString(IF id <= myId THEN id ELSE myId) \o "_" \o ToString(Max(id, myId))

\* GET /dashboard on session s and the start of its script (lines 496-505):
\* a connection, myId, currentRoom and the first join_room.  The DOM that
\* the script writes is not part of the state.
dashboard(c, s) ==
    /\ conn[c].state = "new"
    /\ IF ~login_required(session[s]) \/ current_user(session[s]) = NoUser
       THEN /\ last' = Did("dashboard", c, "/home")
            /\ UNCHANGED <<conn, page>>
       ELSE /\ conn' = [conn EXCEPT ![c] = [state |-> "open", user_id |-> session[s], session |-> s]]
            /\ page' = [page EXCEPT ![c] =
                          [myId |-> users[current_user(session[s])].id,
                           currentRoom |-> "global", peer |-> GlobalId,
                           emitted |-> <<[event |-> "join_room", room |-> "global"]>>]]
            /\ last' = Did("dashboard", c, "/dashboard")
    /\ UNCHANGED <<users, messages, session, rooms, received, usersList, pending, now, registering>>

\* openRoom(id, ...), lines 552-561, on the page of connection c
openRoom(c, id) ==
    /\ conn[c].state = "open"
    /\ page[c].myId # NoUser
    /\ LET room == IF id = GlobalId THEN "global" ELSE privateRoom(id, page[c].myId)
       IN  /\ page' = [page EXCEPT
                          ![c].emitted = @ \o <<[event |-> "leave_room", room |-> page[c].currentRoom],
                                                [event |-> "join_room", room |-> room]>>,
                          ![c].currentRoom = room,
                          ![c].peer = id]
           /\ last' = Did("openRoom", c, room)
    /\ UNCHANGED <<users, messages, session, conn, rooms, received, usersList, pending, now, registering>>

\* the server handles the oldest event that the page of c emitted
handle_emitted(c) ==
    /\ conn[c].state = "open"
    /\ page[c].emitted # <<>>
    /\ LET e == Head(page[c].emitted)
       IN  /\ rooms' = IF e.event = "join_room" THEN join_room(rooms, c, e.room)
                                                ELSE leave_room(rooms, c, e.room)
           /\ last' = Did(e.event, c, e.room)
    /\ page' = [page EXCEPT ![c].emitted = Tail(@)]
    /\ UNCHANGED <<users, messages, session, conn, received, usersList, pending, now, registering>>

\* sendMessage(), lines 590-596, on the page of connection c, and the
\* server's handling of the event up to db.commit(): the events of a page
\* are handled in the order it emitted them.  A blank text emits nothing.
sendMessage(c, input, t) ==
    /\ page[c].myId # NoUser
    /\ page[c].emitted = <<>>
    /\ strip(input) # <<>>
    /\ handle_message_commit(c, page[c].currentRoom, strip(input), t, TRUE)

\* --------------------------------------------------------- queries ----
Min(a, b) == IF a <= b THEN a ELSE b

\* mutant: the query has no room filter
filter_by_any_room(ms, room) == ms

\* .filter_by(room=room)
filter_by_room(ms, room) == SelectSeq(ms, LAMBDA m : m.room = room)

\* the place of row i of ms in ascending timestamp order; rows of equal
\* timestamp keep their id order
rank_by_timestamp(ms, i) ==
    Cardinality({k \in 1..Len(ms) :
                    \/ ms[k].timestamp < ms[i].timestamp
                    \/ ms[k].timestamp = ms[i].timestamp /\ k <= i})

\* .order_by(Message.timestamp): ascending
order_by_timestamp(ms) ==
    [r \in 1..Len(ms) |-> ms[CHOOSE i \in 1..Len(ms) : rank_by_timestamp(ms, i) = r]]

\* .limit(n): the first n rows
limit(ms, n) == SubSeq(ms, 1, Min(n, Len(ms)))

\* GET /api/room_history?room=room on a session bound to user_id: the
\* "messages" of the response, or <<>> with the redirect of login_required
api_room_history(user_id, room) ==
    IF ~login_required(user_id) THEN <<>>
    ELSE LET msgs == limit(order_by_timestamp(filter_by_room(messages, room)), HistoryLimit)
         IN  [i \in 1..Len(msgs) |->
                [sender_id |-> msgs[i].sender_id,
                 sender_name |-> users[msgs[i].sender_id].name,
                 sender_avatar |-> avatar_url(users[msgs[i].sender_id]),
                 content |-> msgs[i].content,
                 timestamp |-> msgs[i].timestamp]]

\* GET /api/users on a session bound to user_id
api_users(user_id) == IF ~login_required(user_id) THEN <<>> ELSE snapshot(users)

\* the request GET /api/users of a browser with session s: the redirect of
\* login_required, or the JSON of api_users(session[s])
get_api_users(s) ==
    /\ last' = Did("api_users", s, IF login_required(session[s]) THEN "json" ELSE "/home")
    /\ UNCHANGED <<users, messages, session, conn, rooms, received, usersList, pending, now, page, registering>>

\* the request GET /api/room_history?room=room of a browser with session s
get_api_room_history(s, room) ==
    /\ last' = Did("api_room_history", s, IF login_required(session[s]) THEN "json" ELSE "/home")
    /\ UNCHANGED <<users, messages, session, conn, rooms, received, usersList, pending, now, page, registering>>

\* fetchUsers(), run at the start of the script and by setInterval every 10
\* seconds: fetch("/api/users") with the cookie of the page's browser.  On a
\* session without a user the answer is the redirect to the home page, whose
\* HTML res.json() rejects: usersList stays as it was.
fetchUsers(c) ==
    /\ conn[c].state = "open"
    /\ page[c].myId # NoUser
    /\ LET s == conn[c].session
       IN  IF login_required(session[s])
           THEN /\ usersList' = [usersList EXCEPT ![c] = api_users(session[s])]
                /\ last' = Did("fetchUsers", c, "json")
           ELSE /\ last' = Did("fetchUsers", c, "/home")
                /\ UNCHANGED usersList
    /\ UNCHANGED <<users, messages, session, conn, rooms, received, pending, now, page, registering>>

\* ---------------------------------------------------- specifications ----
\* every operation, from an empty database
Next ==
    \/ \E s \in Sessions, n \in RawNames, e \in RawEmails, p \in RegPasswords :
          register(s, n, e, p)
    \/ \E s \in Sessions, e \in RawEmails, p \in Passwords : login(s, e, p)
    \/ \E s \in Sessions : logout(s)
    \/ \E c \in Conns, s \in Sessions : connect(c, s)
    \/ \E c \in Conns : disconnect(c)
    \/ \E c \in Conns, r \in Rooms : handle_join(c, r)
    \/ \E c \in Conns, r \in Rooms : handle_leave(c, r)
    \/ \E c \in Conns, r \in Rooms, x \in Contents, ok \in BOOLEAN :
          /\ Len(messages) < MaxMsgs
          /\ handle_message_commit(c, r, x, now + 1, ok)
    \/ \E p \in pending : handle_message_emit(p)
    \/ \E c \in Conns, s \in Sessions : dashboard(c, s)
    \/ \E c \in Conns, id \in 0..Len(users) :
          /\ id # page[c].myId
          /\ Len(page[c].emitted) + 2 <= MaxEmitted
          /\ openRoom(c, id)
    \/ \E c \in Conns : handle_emitted(c)
    \/ \E s \in Sessions : get_api_users(s)
    \/ \E s \in Sessions, r \in Rooms : get_api_room_history(s, r)
    \/ \E c \in Conns : fetchUsers(c)
    \/ \E s \in Sessions, n \in ProfileNames, f \in FileNames, k \in Tokens :
          profile(s, n, f, k)
    \/ \E c \in Conns, x \in SentContents :
          /\ Len(messages) < MaxMsgs
          /\ sendMessage(c, x, now + 1)
    \/ \E s \in Sessions, n \in RawNames, e \in RawEmails, p \in RegPasswords :
          /\ Cardinality(registering) < MaxRegistering
          /\ register_check(s, n, e, p)
    \/ \E r \in registering, ok \in BOOLEAN : register_insert(r, ok)

Spec == Init /\ [][Next]_vars

\* SpecAuth, SpecChat and SpecHistory explore parts of Next: each takes some
\* of its actions, from a state that Spec reaches.

\* accounts, sessions and connections: no chat event
NextAuth ==
    \/ \E s \in Sessions, n \in RawNames, e \in RawEmails, p \in RegPasswords :
          register(s, n, e, p)
    \/ \E s \in Sessions, e \in RawEmails, p \in Passwords : login(s, e, p)
    \/ \E s \in Sessions : logout(s)
    \/ \E c \in Conns, s \in Sessions : connect(c, s)
    \/ \E c \in Conns : disconnect(c)

SpecAuth == Init /\ [][NextAuth]_vars

\* the state after register(s1, " n", "a", "p") from Init: user 1 is bound to
\* session s1 and session s2 is bound to nobody
InitChat ==
    /\ users = <<[id |-> 1, email |-> <<"a">>, name |-> <<"n">>,
                  password_hash |-> generate_password_hash(<<"p">>),
                  avatar |-> None, online |-> TRUE]>>
    /\ messages = <<>>
    /\ session = [s \in Sessions |-> IF s = "s1" THEN 1 ELSE NoUser]
    /\ conn = [c \in Conns |-> [state |-> "new", user_id |-> NoUser, session |-> None]]
    /\ rooms = [r \in Rooms |-> {}]
    /\ received = [c \in Conns |-> <<>>]
    /\ usersList = [c \in Conns |-> <<>>]
    /\ pending = {}
    /\ now = 0
    /\ page = [c \in Conns |-> NoPage]
    /\ registering = {}
    /\ last = [Did("register", "s1", "/dashboard") EXCEPT !.email = <<"a">>]

\* the chat events of the connections of the two sessions
NextChat ==
    \/ \E c \in Conns, s \in Sessions : connect(c, s)
    \/ \E c \in Conns : disconnect(c)
    \/ \E c \in Conns, r \in Rooms : handle_join(c, r)
    \/ \E c \in Conns, r \in Rooms : handle_leave(c, r)
    \/ \E c \in Conns, r \in Rooms, x \in Contents, ok \in BOOLEAN :
          /\ Len(messages) < MaxMsgs
          /\ handle_message_commit(c, r, x, now + 1, ok)
    \/ \E p \in pending : handle_message_emit(p)

SpecChat == InitChat /\ [][NextChat]_vars

\* the state after connect(c1, s1) from InitChat; connection c1 of user 1
\* sends to the global room, one message at a time
InitHistory ==
    /\ users = <<[id |-> 1, email |-> <<"a">>, name |-> <<"n">>,
                  password_hash |-> generate_password_hash(<<"p">>),
                  avatar |-> None, online |-> TRUE]>>
    /\ messages = <<>>
    /\ session = [s \in Sessions |-> IF s = "s1" THEN 1 ELSE NoUser]
    /\ conn = [c \in Conns |-> IF c = "c1" THEN [state |-> "open", user_id |-> 1, session |-> "s1"]
                                           ELSE [state |-> "new", user_id |-> NoUser, session |-> None]]
    /\ rooms = [r \in Rooms |-> {}]
    /\ received = [c \in Conns |-> <<>>]
    /\ usersList = [c \in Conns |-> <<>>]
    /\ pending = {}
    /\ now = 0
    /\ page = [c \in Conns |-> NoPage]
    /\ registering = {}
    /\ last = Did("connect", "c1", "s1")

NextHistory ==
    \/ /\ Len(messages) < MaxHistMsgs
       /\ pending = {}
       /\ \E x \in Contents : handle_message_commit("c1", "global", x, now + 1, TRUE)
    \/ \E p \in pending : handle_message_emit(p)

SpecHistory == InitHistory /\ [][NextHistory]_vars

\* the state after MaxUserId registrations and dashboard(c1, s1),
\* dashboard(c2, s2) on sessions of any two users
InitRoom ==
    /\ users = [i \in 1..MaxUserId |->
                  [id |-> i, email |-> <<"u", ToString(i)>>, name |-> <<"n">>,
                   password_hash |-> generate_password_hash(<<"p">>),
                   avatar |-> None, online |-> TRUE]]
    /\ messages = <<>>
    /\ session \in [Sessions -> 1..MaxUserId]
    /\ conn = [c \in Conns |->
                 [state |-> "open",
                  user_id |-> IF c = "c1" THEN session["s1"] ELSE session["s2"],
                  session |-> IF c = "c1" THEN "s1" ELSE "s2"]]
    /\ rooms = [r \in Rooms |-> {}]
    /\ received = [c \in Conns |-> <<>>]
    /\ usersList = [c \in Conns |-> <<>>]
    /\ pending = {}
    /\ now = 0
    /\ page = [c \in Conns |->
                 [myId |-> conn[c].user_id, currentRoom |-> "global", peer |-> GlobalId,
                  emitted |-> <<[event |-> "join_room", room |-> "global"]>>]]
    /\ registering = {}
    /\ last = Did("dashboard", "c2", "/dashboard")

\* the pages open rooms; the rows of a page are the other users and Global Chat
NextRoom ==
    \E c \in Conns, id \in 0..Len(users) :
       /\ id # page[c].myId
       /\ Len(page[c].emitted) + 2 <= MaxEmitted
       /\ openRoom(c, id)

SpecRoom == InitRoom /\ [][NextRoom]_vars

\* the state after register(s1, " n", "a", "p") and register(s2, " n", "b", "p")
\* from Init: users 1 and 2 are online, each bound to one session
InitPresence ==
    /\ users = [i \in 1..2 |->
                  [id |-> i, email |-> IF i = 1 THEN <<"a">> ELSE <<"b">>, name |-> <<"n">>,
                   password_hash |-> generate_password_hash(<<"p">>),
                   avatar |-> None, online |-> TRUE]]
    /\ messages = <<>>
    /\ session = [s \in Sessions |-> IF s = "s1" THEN 1 ELSE 2]
    /\ conn = [c \in Conns |-> [state |-> "new", user_id |-> NoUser, session |-> None]]
    /\ rooms = [r \in Rooms |-> {}]
    /\ received = [c \in Conns |-> <<>>]
    /\ usersList = [c \in Conns |-> <<>>]
    /\ pending = {}
    /\ now = 0
    /\ page = [c \in Conns |-> NoPage]
    /\ registering = {}
    /\ last = [Did("register", "s2", "/dashboard") EXCEPT !.email = <<"b">>]

\* the session that opens connection c in SpecPresence: one page per browser
SessionOf(c) == IF c = "c1" THEN "s1" ELSE "s2"

\* sessions log in and out while their connections join the global room and
\* send to it
NextPresence ==
    \/ \E s \in Sessions, e \in {<<"a">>, <<"b">>}, p \in RegPasswords : login(s, e, p)
    \/ \E s \in Sessions : logout(s)
    \/ \E c \in Conns : connect(c, SessionOf(c))
    \/ \E c \in Conns : handle_join(c, "global")
    \/ \E c \in Conns, x \in Contents, ok \in BOOLEAN :
          /\ Len(messages) < MaxPresenceMsgs
          /\ handle_message_commit(c, "global", x, now + 1, ok)
    \/ \E p \in pending : handle_message_emit(p)

SpecPresence == InitPresence /\ [][NextPresence]_vars

\* the connections of users 1 and 2 join rooms and send texts of every kind
\* to them, one message at a time
NextSend ==
    \/ \E c \in Conns : connect(c, SessionOf(c))
    \/ \E c \in Conns, r \in Rooms : handle_join(c, r)
    \/ \E c \in Conns, r \in Rooms, x \in SentContents :
          /\ Len(messages) < MaxSendMsgs
          /\ pending = {}
          /\ handle_message_commit(c, r, x, now + 1, TRUE)
    \/ \E p \in pending : handle_message_emit(p)

SpecSend == InitPresence /\ [][NextSend]_vars

\* user 1 logs in and out on either session, connections send to the rooms,
\* and the browsers ask for the roster and the histories
NextQuery ==
    \/ \E s \in Sessions : login(s, <<"a">>, <<"p">>)
    \/ \E s \in Sessions : logout(s)
    \/ \E c \in Conns, s \in Sessions : connect(c, s)
    \/ \E c \in Conns, r \in Rooms, x \in Contents :
          /\ Len(messages) < MaxMsgs
          /\ handle_message_commit(c, r, x, now + 1, TRUE)
    \/ \E s \in Sessions : get_api_users(s)
    \/ \E s \in Sessions, r \in Rooms : get_api_room_history(s, r)

SpecQuery == InitChat /\ [][NextQuery]_vars

\* the email that the user of the browser with session s logs in with
EmailOf(s) == IF s = "s1" THEN <<"a">> ELSE <<"b">>

\* users 1 and 2 log out and in again, each in their own browser, while the
\* dashboards of the two browsers refresh their rosters and send to the
\* global room
NextRefresh ==
    \/ \E s \in Sessions : login(s, EmailOf(s), <<"p">>)
    \/ \E s \in Sessions : logout(s)
    \/ \E c \in Conns : dashboard(c, SessionOf(c))
    \/ \E c \in Conns : fetchUsers(c)
    \/ \E c \in Conns, x \in Contents :
          /\ Len(messages) < MaxPresenceMsgs
          /\ handle_message_commit(c, "global", x, now + 1, TRUE)
    \/ \E p \in pending : handle_message_emit(p)

SpecRefresh == InitPresence /\ [][NextRefresh]_vars

\* the timer of every open dashboard keeps firing, and a handler that has
\* committed goes on to emit
FairRefresh ==
    /\ \A c \in Conns : WF_vars(fetchUsers(c))
    /\ WF_vars(\E p \in pending : handle_message_emit(p))

SpecRefreshFair == SpecRefresh /\ FairRefresh

\* every operation of the program: each browser with its own account, and
\* one connection, opened from either browser, in the global room
NextAll ==
    \/ \E n \in RawNames, p \in RegPasswords : register("s2", n, <<"b">>, p)
    \/ \E s \in Sessions : login(s, EmailOf(s), <<"p">>)
    \/ \E s \in Sessions : logout(s)
    \/ \E s \in Sessions, f \in {<<>>, <<"a", ".", "p", "N", "g">>} :
          profile(s, <<" ", "m">>, f, "0a")
    \/ \E s \in Sessions : connect("c1", s)
    \/ disconnect("c1")
    \/ handle_join("c1", "global")
    \/ handle_leave("c1", "global")
    \/ \E x \in Contents :
          /\ Len(messages) < MaxAllMsgs
          /\ pending = {}
          /\ handle_message_commit("c1", "global", x, now + 1, TRUE)
    \/ \E p \in pending : handle_message_emit(p)
    \/ \E s \in Sessions : get_api_users(s)
    \/ \E s \in Sessions : get_api_room_history(s, "global")

SpecAll == InitChat /\ [][NextAll]_vars

\* the state after three registrations and a logout and login that leave
\* session s1 with user 1 and session s2 with user 3; user 2 is logged out
InitPrivate ==
    /\ users = [i \in 1..3 |->
                  [id |-> i,
                   email |-> IF i = 1 THEN <<"a">> ELSE IF i = 2 THEN <<"b">> ELSE <<"c">>,
                   name |-> <<"n">>,
                   password_hash |-> generate_password_hash(<<"p">>),
                   avatar |-> None, online |-> i # 2]]
    /\ messages = <<>>
    /\ session = [s \in Sessions |-> IF s = "s1" THEN 1 ELSE 3]
    /\ conn = [c \in Conns |-> [state |-> "new", user_id |-> NoUser, session |-> None]]
    /\ rooms = [r \in Rooms |-> {}]
    /\ received = [c \in Conns |-> <<>>]
    /\ usersList = [c \in Conns |-> <<>>]
    /\ pending = {}
    /\ now = 0
    /\ page = [c \in Conns |-> NoPage]
    /\ registering = {}
    /\ last = [Did("login", "s2", "/dashboard") EXCEPT !.email = <<"c">>]

\* the connections of users 1 and 3 join rooms and send to them, and their
\* browsers ask for the histories
NextPrivate ==
    \/ \E c \in Conns : connect(c, SessionOf(c))
    \/ \E c \in Conns, r \in Rooms : handle_join(c, r)
    \/ \E c \in Conns, r \in Rooms, x \in Contents :
          /\ Len(messages) < MaxSendMsgs
          /\ pending = {}
          /\ handle_message_commit(c, r, x, now + 1, TRUE)
    \/ \E p \in pending : handle_message_emit(p)
    \/ \E s \in Sessions, r \in Rooms : get_api_room_history(s, r)

SpecPrivate == InitPrivate /\ [][NextPrivate]_vars

\* the browsers of users 1 and 2 open the dashboard, open rooms from its
\* rows and send; the server handles the events of each page in order
NextDashboard ==
    \/ \E c \in Conns : dashboard(c, SessionOf(c))
    \/ \E c \in Conns, id \in 0..Len(users) :
          /\ id # page[c].myId
          /\ Len(page[c].emitted) + 2 <= MaxEmitted
          /\ openRoom(c, id)
    \/ \E c \in Conns : handle_emitted(c)
    \/ \E c \in Conns, x \in SentContents :
          /\ Len(messages) < MaxPresenceMsgs
          /\ sendMessage(c, x, now + 1)
    \/ \E p \in pending : handle_message_emit(p)

SpecDashboard == InitPresence /\ [][NextDashboard]_vars

\* register requests that interleave, with logins and logouts
NextRegister ==
    \/ \E s \in Sessions, n \in RawNames, e \in RawEmails, p \in RegPasswords :
          /\ Cardinality(registering) < MaxRegistering
          /\ register_check(s, n, e, p)
    \/ \E r \in registering, ok \in BOOLEAN : register_insert(r, ok)
    \/ \E s \in Sessions, e \in RawEmails, p \in RegPasswords : login(s, e, p)
    \/ \E s \in Sessions : logout(s)

SpecRegister == Init /\ [][NextRegister]_vars

\* ------------------------------------------------------------ claims ----
Count(seq, id) == Cardinality({i \in 1..Len(seq) : seq[i].id = id})

OtherRoom(r) == CHOOSE q \in Rooms : q # r

\* C1: the emit of a send to room R delivers the message exactly once to every
\* connection subscribed to R at that time, the sender's own included, and
\* not at all to the connections that are not subscribed to R.
C1_FanOutExactlyOnce ==
    [][last'.op = "emit" =>
          \A c \in Conns :
             /\ Count(received'[c], last'.mid) =
                   IF c \in rooms[messages[last'.mid].room] THEN 1 ELSE 0
             /\ Len(received'[c]) = Len(received[c]) + Count(received'[c], last'.mid)]_vars

\* the sender is subscribed to R and got its own message; another open
\* connection, subscribed only to the other room, got nothing
C1_Witness ==
    /\ last.op = "emit"
    /\ LET r == messages[last.mid].room
       IN  /\ last.by \in rooms[r]
           /\ Count(received[last.by], last.mid) = 1
           /\ \E c \in Conns \ {last.by} :
                 /\ c \in rooms[OtherRoom(r)] \ rooms[r]
                 /\ received[c] = <<>>

\* C2 (as claimed): the history of a room is in non-decreasing timestamp
\* order and, with more than HistoryLimit messages in the room, it is the
\* HistoryLimit most recent of them.
C2_HistoryMostRecent ==
    \A r \in Rooms :
       LET h == api_room_history(1, r)
           every == order_by_timestamp(filter_by_room(messages, r))
       IN  /\ \A i \in 1..(Len(h) - 1) : h[i].timestamp <= h[i + 1].timestamp
           /\ Len(every) > HistoryLimit =>
                 /\ Len(h) = HistoryLimit
                 /\ \A i \in 1..HistoryLimit :
                       h[i].timestamp = every[Len(every) - HistoryLimit + i].timestamp

Persisted(p) ==
    /\ p.id \in 1..Len(messages)
    /\ messages[p.id].sender_id = p.sender_id
    /\ messages[p.id].room = p.room
    /\ messages[p.id].content = p.content
    /\ messages[p.id].timestamp = p.timestamp

AllDeliveredPersisted ==
    \A c \in Conns : \A i \in 1..Len(received[c]) : Persisted(received[c][i])

\* C3: every delivered new_message is of a persisted message, and a send
\* whose commit fails persists nothing, delivers nothing and leaves no
\* handler that would deliver later.
C3_NoPartialSend ==
    [][/\ AllDeliveredPersisted'
       /\ (last'.op = "send_message" /\ last'.resp = "commit failed") =>
             UNCHANGED <<messages, received, usersList, pending>>]_vars

\* a commit failed for a bound sender whose room has a subscriber
C3_Witness ==
    /\ last.op = "send_message"
    /\ last.resp = "commit failed"
    /\ conn[last.by].user_id # NoUser
    /\ \E r \in Rooms : rooms[r] # {}

\* C4: a send_message on a connection whose session has no user persists
\* nothing, delivers nothing and broadcasts no snapshot.
C4_UnboundSendDropped ==
    [][(last'.op = "send_message" /\ conn[last'.by].user_id = NoUser) =>
          UNCHANGED <<messages, received, usersList, pending>>]_vars

\* a send was dropped while a user existed and a room had a subscriber
C4_Witness ==
    /\ last.op = "send_message"
    /\ conn[last.by].user_id = NoUser
    /\ users # <<>>
    /\ \E r \in Rooms : rooms[r] # {}

\* C5 (as claimed): join_room and leave_room from a connection whose session
\* has no user leave every room's subscribers as they were.
C5_UnboundJoinLeaveDropped ==
    [][(last'.op \in {"join_room", "leave_room"} /\ conn[last'.by].user_id = NoUser) =>
          rooms' = rooms]_vars

\* C6 (as claimed): every connection receives the messages of one room in
\* the order in which they were persisted.
C6_DeliveryInPersistenceOrder ==
    \A c \in Conns : \A i, j \in 1..Len(received[c]) :
       (i < j /\ received[c][i].room = received[c][j].room) =>
          received[c][i].id < received[c][j].id

\* C7: a closed connection is subscribed to no room, and nothing is
\* delivered to it any more.
C7_ClosedConnectionUnsubscribed ==
    [][\A c \in Conns :
          conn'[c].state = "closed" =>
             /\ \A r \in Rooms : c \notin rooms'[r]
             /\ conn[c].state = "closed" => received'[c] = received[c]]_vars

\* a connection that had received in room R is closed, and a later message
\* to R was emitted without reaching it
C7_Witness ==
    /\ last.op = "emit"
    /\ \E c \in Conns :
          /\ conn[c].state = "closed"
          /\ received[c] # <<>>
          /\ received[c][1].room = messages[last.mid].room
          /\ Count(received[c], last.mid) = 0

\* C8 (as claimed): a logout or disconnect does not turn a user offline
\* while a session or an open connection is still bound to that user.
C8_OnlineWhileAnotherSession ==
    [][\A u \in 1..Len(users) :
          (/\ last'.op \in {"logout", "disconnect"}
           /\ users[u].online
           /\ \/ \E s \in Sessions : session'[s] = u
              \/ \E c \in Conns : conn'[c].state = "open" /\ conn'[c].user_id = u) =>
             users'[u].online]_vars

\* C9 (as claimed): when the last open connection of a user closes, the
\* presence snapshot reports that user offline.
C9_OfflineAfterLastDisconnect ==
    [][(/\ last'.op = "disconnect"
        /\ conn[last'.by].user_id # NoUser
        /\ ~ \E c \in Conns :
               conn'[c].state = "open" /\ conn'[c].user_id = conn[last'.by].user_id) =>
          ~ snapshot(users')[conn[last'.by].user_id].online]_vars

\* C10: a registration whose trimmed, lowercased e-mail is that of a
\* registered user is rejected as a duplicate: the users table and every
\* session are unchanged.
C10_DuplicateEmailRejected ==
    [][(/\ last'.op = "register"
        /\ \E u \in 1..Len(users) : users[u].email = lower(strip(last'.email))) =>
          /\ last'.resp = "Email already registered."
          /\ UNCHANGED <<users, session>>]_vars

\* the rejected e-mail differs from the stored one in case and spacing
C10_Witness ==
    /\ last.op = "register"
    /\ last.resp = "Email already registered."
    /\ last.email = <<"A", " ">>
    /\ \E u \in 1..Len(users) : users[u].email = <<"a">>

IsPrivate(c) == page[c].peer # GlobalId

Pair(c) == {page[c].myId, page[c].peer}

\* C11: the pages of two users who opened each other's row are in the same
\* room, and pages that opened the rows of different pairs of users are in
\* different rooms.
C11_PrivateRoomSymmetric ==
    \A c, d \in Conns :
       (IsPrivate(c) /\ IsPrivate(d)) =>
          (page[c].currentRoom = page[d].currentRoom <=> Pair(c) = Pair(d))

\* users 2 and 12 opened each other's row
C11_Witness ==
    /\ page["c1"].myId = 12 /\ page["c1"].peer = 2
    /\ page["c2"].myId = 2 /\ page["c2"].peer = 12
    /\ page["c1"].currentRoom = "private_2_12"

\* C12: a leave_room of connection c for room R takes c out of R and changes
\* nothing else: the other subscribers of R and every other room stay as they
\* were; and an emit to a room delivers nothing to a connection that is not
\* subscribed to it.
C12_LeaveUnsubscribes ==
    [][/\ last'.op = "leave_room" =>
             /\ last'.by \notin rooms'[last'.resp]
             /\ rooms'[last'.resp] = rooms[last'.resp] \ {last'.by}
             /\ \A q \in Rooms \ {last'.resp} : rooms'[q] = rooms[q]
       /\ last'.op = "emit" =>
             \A c \in Conns :
                c \notin rooms[messages[last'.mid].room] => received'[c] = received[c]]_vars

\* an open connection that received in room R while it was joined has left
\* R, is still in the other room, and the next message to R passed it by
\* while the other connection, still in R, got it
C12_Witness ==
    /\ last.op = "emit"
    /\ \E c \in Conns :
          LET r == messages[last.mid].room
          IN  /\ conn[c].state = "open"
              /\ c \notin rooms[r]
              /\ c \in rooms[OtherRoom(r)]
              /\ \E i \in 1..Len(received[c]) : received[c][i].room = r
              /\ Count(received[c], last.mid) = 0
              /\ \E d \in rooms[r] : Count(received[d], last.mid) = 1

\* ------------------------------------------------------------------------
\* C13: when a send_message handler emits, every connected client, in the
\* message's room or not, is pushed a roster that has one entry per
\* registered user, carrying that user's online flag of the moment
C13_SnapshotToAll ==
    [][last'.op = "emit" =>
          \A c \in Conns :
             conn[c].state = "open" =>
                /\ Len(usersList'[c]) = Len(users)
                /\ \A i \in 1..Len(users) :
                      /\ usersList'[c][i].id = users[i].id
                      /\ usersList'[c][i].online = users[i].online]_vars

\* a client outside the message's room holds the pushed roster, with a user
\* in it who is offline
C13_Witness ==
    /\ last.op = "emit"
    /\ \E c \in OpenConns :
          /\ c \notin rooms[messages[last.mid].room]
          /\ Len(usersList[c]) = Len(users)
          /\ \E i \in 1..Len(users) : ~usersList[c][i].online
          /\ \E i \in 1..Len(users) : usersList[c][i].online

\* ------------------------------------------------------------------------
\* the entries of a history response that carry timestamp t
EntriesAt(h, t) == {j \in 1..Len(h) : h[j].timestamp = t}

\* C14: a send_message of content x to room r that the handler of a
\* connection of user u commits adds one row (u, r, x) to the messages; and
\* every row of the messages is, for whoever asks, exactly one entry of the
\* history of its room, with its sender id and content, and no entry of the
\* history of another room (the room holding at most HistoryLimit messages)
C14_AcceptedInHistoryOnce ==
    /\ [](\A asker \in 1..Len(users), r \in Rooms :
             Len(filter_by_room(messages, r)) <= HistoryLimit =>
                LET h == api_room_history(asker, r)
                IN  \A i \in 1..Len(messages) :
                       IF messages[i].room = r
                       THEN /\ Cardinality(EntriesAt(h, messages[i].timestamp)) = 1
                            /\ \A j \in EntriesAt(h, messages[i].timestamp) :
                                  /\ h[j].sender_id = messages[i].sender_id
                                  /\ h[j].content = messages[i].content
                       ELSE EntriesAt(h, messages[i].timestamp) = {})
    /\ [][(last'.op = "send_message" /\ last'.resp = "committed") =>
             \A c \in Conns, r \in Rooms, x \in SentContents :
                handle_message_commit(c, r, x, now + 1, TRUE) =>
                   /\ Len(messages') = Len(messages) + 1
                   /\ SubSeq(messages', 1, Len(messages)) = messages
                   /\ messages'[Len(messages')].sender_id = conn[c].user_id
                   /\ messages'[Len(messages')].room = r
                   /\ messages'[Len(messages')].content = x
                   /\ \A k \in 1..Len(messages) :
                         messages'[Len(messages')].timestamp # messages[k].timestamp]_vars

\* user 2 has just sent a blank text to one room after user 1 sent "hi" to the
\* other; each history holds its own message only
C14_Witness ==
    /\ last.op = "send_message" /\ last.resp = "committed"
    /\ Len(messages) = 2
    /\ messages[1].sender_id = 1 /\ messages[2].sender_id = 2
    /\ messages[1].room # messages[2].room
    /\ messages[1].content = <<"h", "i">> /\ messages[2].content = <<" ">>
    /\ Len(api_room_history(1, messages[1].room)) = 1
    /\ Len(api_room_history(1, messages[2].room)) = 1
    /\ api_room_history(1, messages[2].room)[1].sender_id = 2
    /\ api_room_history(1, messages[2].room)[1].content = <<" ">>

\* ------------------------------------------------------------------------
SuccessfulLogin(l) == l.op = "login" /\ l.resp = "/dashboard"

\* C15: a successful login leaves the roster with exactly one entry for the
\* user, online; a second successful login of the same user right after the
\* first leaves the roster as it was; and the roster has every registered
\* user exactly once
C15_MarkOnlineIdempotent ==
    [][/\ SuccessfulLogin(last') =>
             /\ Count(snapshot(users'), session'[last'.by]) = 1
             /\ \A i \in 1..Len(users') :
                   snapshot(users')[i].id = session'[last'.by] => snapshot(users')[i].online
       /\ (/\ SuccessfulLogin(last) /\ SuccessfulLogin(last')
           /\ session[last.by] = session'[last'.by]) =>
             snapshot(users') = snapshot(users)
       /\ Len(snapshot(users')) = Len(users')
       /\ \A i \in 1..Len(users') : Count(snapshot(users'), users'[i].id) = 1
      ]_vars

\* a user who is logged in on one session has just logged in on the other:
\* the roster of two users has the one entry for that user, online
C15_Witness ==
    /\ SuccessfulLogin(last)
    /\ Len(users) = 2
    /\ \A s \in Sessions : session[s] = session[last.by]
    /\ Count(api_users(session[last.by]), session[last.by]) = 1
    /\ \A i \in 1..Len(users) :
          api_users(session[last.by])[i].id = session[last.by] =>
             api_users(session[last.by])[i].online

\* ------------------------------------------------------------------------
\* C16: a send_message whose content is empty or all whitespace is rejected:
\* every persisted message, and every delivered new_message, has content
\* that is non-empty after trimming
C16_BlankContentRejected ==
    /\ \A i \in 1..Len(messages) : strip(messages[i].content) # <<>>
    /\ \A c \in Conns : \A j \in 1..Len(received[c]) : strip(received[c][j].content) # <<>>

\* ------------------------------------------------------------------------
\* C17: GET /api/users and GET /api/room_history on a session that has no
\* user bound are answered with the redirect to the home page, carry no roster
\* and no message, and leave the state as it was
C17_QueriesFailClosed ==
    [][(last'.op \in {"api_users", "api_room_history"} /\ session[last'.by] = NoUser) =>
          /\ last'.resp = "/home"
          /\ api_users(session[last'.by]) = <<>>
          /\ \A r \in Rooms : api_room_history(session[last'.by], r) = <<>>
          /\ UNCHANGED <<users, messages, session, conn, rooms, received,
                         usersList, pending, now, page>>]_vars

\* the history of a room that has a message was asked for on a session
\* that has no user
C17_Witness ==
    /\ last.op = "api_room_history" /\ last.resp = "/home"
    /\ session[last.by] = NoUser
    /\ \E r \in Rooms : api_room_history(1, r) # <<>>
    /\ api_users(1) # <<>>

\* ------------------------------------------------------------------------
\* C18: a successful login or registration binds the user to the session
\* and sets the user online; a logout sets the session's user offline and
\* unbinds the session; and a send_message on a connection of a session that
\* has no user bound (it logged out and has not logged in again) is dropped
C18_LogoutEndsSending ==
    [][/\ (last'.op \in {"login", "register"} /\ last'.resp = "/dashboard") =>
             /\ session'[last'.by] \in 1..Len(users')
             /\ users'[session'[last'.by]].email = normalize_email(last'.email)
             /\ users'[session'[last'.by]].online
       /\ (last'.op = "logout" /\ session[last'.by] # NoUser) =>
             /\ ~users'[session[last'.by]].online
             /\ session'[last'.by] = NoUser
       /\ (last'.op = "send_message" /\ session[conn[last'.by].session] = NoUser) =>
             /\ last'.resp = "dropped"
             /\ messages' = messages
      ]_vars

\* ------------------------------------------------------------------------
\* C19: no room has a subscriber to begin with; a connection becomes a
\* subscriber of room r only by the step that handles its own join_room for
\* r, and the step that handles its leave_room for r leaves it out of r
C19_SubscribedOnlyByJoin ==
    /\ \A r \in Rooms : rooms[r] = {}
    /\ [][\A c \in Conns, r \in Rooms :
             /\ (c \in rooms'[r] /\ c \notin rooms[r]) =>
                   (last'.op = "join_room" /\ last'.by = c /\ last'.resp = r)
             /\ (last'.op = "leave_room" /\ last'.by = c /\ last'.resp = r) =>
                   c \notin rooms'[r]]_vars

\* one connection has joined the private room; its peer is connected and has
\* joined nothing, and the global room, which nobody joined, is empty
C19_Witness ==
    /\ last.op = "join_room" /\ last.resp = "private_1_2"
    /\ rooms["private_1_2"] = {last.by}
    /\ rooms["global"] = {}
    /\ \E d \in OpenConns \ {last.by} : \A r \in Rooms : d \notin rooms[r]

\* C20: handling join_room for room r makes the subscribers of r the old
\* ones and the connection, which is no change when the connection was in
\* r already, and changes no other room; the emit of a send to r then
\* delivers one new_message to each subscriber
C20_JoinIdempotent ==
    [][/\ last'.op = "join_room" =>
             /\ rooms'[last'.resp] = rooms[last'.resp] \cup {last'.by}
             /\ last'.by \in rooms[last'.resp] => rooms' = rooms
             /\ \A q \in Rooms \ {last'.resp} : rooms'[q] = rooms[q]
       /\ last'.op = "emit" =>
             \A c \in rooms[messages[last'.mid].room] :
                /\ Len(received'[c]) = Len(received[c]) + 1
                /\ Count(received'[c], last'.mid) = 1
      ]_vars

\* a connection that is in both rooms, and has received a message of room r
\* already, has joined r once more while a send to r waits to be emitted
C20_Witness ==
    /\ last.op = "join_room"
    /\ \A q \in Rooms : last.by \in rooms[q]
    /\ \E j \in 1..Len(received[last.by]) : received[last.by][j].room = last.resp
    /\ \E p \in pending : p.msg.room = last.resp

\* ------------------------------------------------------------------------
\* the roster that the dashboard of c holds shows user u with online flag b
Shows(c, u, b) ==
    \E i \in 1..Len(usersList[c]) : usersList[c][i].id = u /\ usersList[c][i].online = b

\* C21: when the online flag of a user is b, every connected dashboard comes
\* to hold a roster that shows b for that user, unless the flag changes
\* again first (the timers of the dashboards and the emits being fair)
C21_PresenceEventuallyConsistent ==
    \A c \in Conns, u \in 1..2, b \in BOOLEAN :
       (conn[c].state = "open" /\ page[c].myId # NoUser /\ users[u].online = b)
          ~> (users[u].online # b \/ Shows(c, u, b))

\* ------------------------------------------------------------------------
\* C22: every step leaves the rows of the messages table that were there,
\* with their sender id, room, content and timestamp, in their places; a
\* send_message that commits adds exactly one row, and nothing else adds any
C22_MessagesAppendOnly ==
    [][/\ Len(messages') >= Len(messages)
       /\ \A i \in 1..Len(messages) :
             /\ messages'[i].id = messages[i].id
             /\ messages'[i].sender_id = messages[i].sender_id
             /\ messages'[i].room = messages[i].room
             /\ messages'[i].content = messages[i].content
             /\ messages'[i].timestamp = messages[i].timestamp
       /\ (last'.op = "send_message" /\ last'.resp = "committed") =>
             Len(messages') = Len(messages) + 1
       /\ Len(messages') # Len(messages) =>
             (last'.op = "send_message" /\ last'.resp = "committed")
      ]_vars

\* the sender of the two persisted messages has just saved a new name and
\* avatar in the profile form
C22_Witness ==
    /\ last.op = "profile" /\ last.resp = "200"
    /\ Len(messages) = 2
    /\ \A i \in 1..2 : messages[i].sender_id = session[last.by]
    /\ users[session[last.by]].name = <<"m">>
    /\ users[session[last.by]].avatar # None

\* ------------------------------------------------------------------------
\* the account that e-mail e and password p are the credentials of, if any
AccountOf(e, p) ==
    {i \in 1..Len(users) :
        /\ users[i].email = lower(strip(e))
        /\ users[i].password_hash = <<"pbkdf2">> \o p}

\* C23: a login with an unknown e-mail or a wrong password is answered with
\* the error and changes nothing: the session keeps what it had and no online
\* flag moves; a login with the credentials of an account succeeds and binds
\* it, however many logins failed before
C23_FailedLoginChangesNothing ==
    [][last'.op = "login" =>
          \A s \in Sessions, e \in RawEmails, p \in Passwords :
             login(s, e, p) =>
                IF AccountOf(e, p) = {}
                THEN /\ last'.resp = "Invalid email or password."
                     /\ UNCHANGED <<users, messages, session, conn, rooms, received,
                                    usersList, pending, now, page>>
                ELSE /\ last'.resp = "/dashboard"
                     /\ session'[s] \in AccountOf(e, p)
      ]_vars

\* a login with the e-mail of an account and a wrong password has just failed
\* on a session that has no user
C23_Witness ==
    /\ last.op = "login" /\ last.resp = "Invalid email or password."
    /\ session[last.by] = NoUser
    /\ \E i \in 1..Len(users) :
          /\ users[i].email = lower(strip(last.email))
          /\ users[i].online

\* ------------------------------------------------------------------------
\* the users whose pages name their conversation by room
Members(room) ==
    {a \in 1..Len(users) : \E b \in 1..Len(users) : a # b /\ privateRoom(a, b) = room}

\* C24: the messages of a private room reach its two users only: no
\* connection of another user is delivered a new_message of the room, and the
\* history of the room, asked for on a session of another user, has no message
C24_PrivateRoomConfidential ==
    \A r \in Rooms \ {"global"} :
       /\ \A c \in Conns :
             \A j \in 1..Len(received[c]) :
                received[c][j].room = r => conn[c].user_id \in Members(r)
       /\ \A s \in Sessions :
             (session[s] # NoUser /\ session[s] \notin Members(r)) =>
                api_room_history(session[s], r) = <<>>

\* ------------------------------------------------------------------------
\* C25: whatever room and content a send_message event carries, the row it
\* persists has as sender_id the id of the registered user that the session
\* of the sending connection holds, and so has the new_message payload that
\* the handler emits
C25_SenderFromSession ==
    [][/\ (last'.op = "send_message" /\ last'.resp = "committed") =>
             \A r \in Rooms, x \in SentContents :
                handle_message_commit(last'.by, r, x, now + 1, TRUE) =>
                   /\ conn[last'.by].user_id \in 1..Len(users)
                   /\ messages'[last'.mid].sender_id = users[conn[last'.by].user_id].id
       /\ last'.op = "emit" =>
             \A d \in Conns :
                Len(received'[d]) > Len(received[d]) =>
                   received'[d][Len(received'[d])].sender_id = conn[last'.by].user_id
      ]_vars

\* the connection of user 2 has emitted its message, and a connection of
\* user 1 holds the payload, with sender id 2
C25_Witness ==
    /\ last.op = "emit"
    /\ conn[last.by].user_id = 2
    /\ messages[last.mid].sender_id = 2
    /\ \E d \in Conns :
          /\ conn[d].user_id = 1
          /\ received[d] # <<>>
          /\ received[d][Len(received[d])].id = last.mid
          /\ received[d][Len(received[d])].sender_id = 2

\* ------------------------------------------------------------------------
\* the rooms that connection c is a subscriber of
RoomsOf(c) == {r \in Rooms : c \in rooms[r]}

\* the page of c is a dashboard and the server has handled all it emitted
Settled(c) == conn[c].state = "open" /\ page[c].myId # NoUser /\ page[c].emitted = <<>>

\* C26: a dashboard whose events the server has handled, in order, is a
\* subscriber of its currentRoom and of no other room, and the emit of a
\* message of another room delivers nothing to it
C26_OneRoomAtATime ==
    /\ [](\A c \in Conns : Settled(c) => RoomsOf(c) = {page[c].currentRoom})
    /\ [][last'.op = "emit" =>
             \A c \in Conns :
                (Settled(c) /\ messages[last'.mid].room # page[c].currentRoom) =>
                   received'[c] = received[c]]_vars

\* user 2 has sent to the global room while the dashboard of user 1, all of
\* its events handled, is in the private room: it was delivered nothing
C26_Witness ==
    /\ last.op = "emit"
    /\ messages[last.mid].room = "global"
    /\ \E c \in Conns :
          /\ Settled(c)
          /\ c # last.by
          /\ page[c].currentRoom = "private_1_2"
          /\ RoomsOf(c) = {"private_1_2"}
          /\ received[c] = <<>>
    /\ received[last.by] # <<>>

\* ------------------------------------------------------------------------
\* C27: no two users have the same e-mail, compared without case and outer
\* blanks, however register requests interleave
C27_EmailUniqueUnderConcurrency ==
    \A i, j \in 1..Len(users) :
       lower(strip(users[i].email)) = lower(strip(users[j].email)) => i = j

\* two requests passed the existence check for the same e-mail; the commit of
\* the second has just been refused, and one user has the e-mail
C27_Witness ==
    /\ last.op = "register" /\ last.resp = "500"
    /\ registering = {}
    /\ Len(users) = 1
    /\ users[1].email = last.email
    /\ session[last.by] = NoUser

\* ------------------------------------------------------------------------
\* C28: POST /profile changes the name and the avatar of the user of the
\* session it arrives on and nothing else: that user's id, email, password
\* hash and online flag, the rows of the other users, the messages, the room
\* memberships and the sessions stay as they were
C28_ProfileFrame ==
    [][last'.op = "profile" =>
          /\ Len(users') = Len(users)
          /\ \A i \in 1..Len(users) :
                /\ users'[i].id = users[i].id
                /\ users'[i].email = users[i].email
                /\ users'[i].password_hash = users[i].password_hash
                /\ users'[i].online = users[i].online
                /\ i # session[last'.by] =>
                      /\ users'[i].name = users[i].name
                      /\ users'[i].avatar = users[i].avatar
          /\ UNCHANGED <<messages, rooms, session, conn, received, usersList, pending>>
      ]_vars

\* user 2 has just saved a new name and an avatar; user 1, who has a message
\* in the table and a connection in the global room, has the old ones
C28_Witness ==
    /\ last.op = "profile" /\ last.resp = "200"
    /\ session[last.by] = 2
    /\ Len(users) = 2
    /\ users[2].name = <<"m">> /\ users[2].avatar = "2_0a.png"
    /\ users[1].name = <<"n">> /\ users[1].avatar = None
    /\ messages # <<>>
    /\ rooms["global"] # {}

====
